---- MODULE Spec2Model ----
(***************************************************************************)
(* Model of abp/filters/rpy.py: tuple2dict, strings2utf8 and line2dict.    *)
(*                                                                         *)
(* Python values are references into a heap of objects, so that claims     *)
(* about identity ("the very same value", "a newly created container")     *)
(* and about mutation can be stated.  The semantics modelled is CPython 3: *)
(* text (str) and bytes never compare equal, True == 1, the empty tuple is *)
(* one shared object, and the strict utf-8 codec rejects lone surrogates.  *)
(***************************************************************************)
EXTENDS Integers, Sequences, FiniteSets, TLC

VARIABLES heap, fn, arg, line, pc, ret

vars == <<heap, fn, arg, line, pc, ret>>

(***************************************************************************)
(* Bounds of the input universe.                                           *)
(***************************************************************************)
\* Largest number of nodes (containers and leaves) of an input value.
MaxNodes == 4
\* Largest number of elements of a list or tuple, of entries of a dict.
MaxLen == 2

(***************************************************************************)
(* Objects.  Every object has the same five fields:                        *)
(*   kind   "text" | "bytes" | "int" | "bool" | "list" | "tuple" | "dict"  *)
(*          | "record" (a namedtuple instance, a subclass of tuple)        *)
(*   data   code points of a text, bytes of a byte string, <<n>> of an int *)
(*          or bool                                                        *)
(*   items  elements of a list / tuple / record, values of a dict          *)
(*   keys   keys of a dict, field names of a record (parallel to items)    *)
(*   cls    code points of the class name of a record                      *)
(* In a heap object items and keys hold addresses; in an input tree they   *)
(* hold trees.                                                             *)
(***************************************************************************)
Obj(kind, data, items, keys, cls) ==
    [kind |-> kind, data |-> data, items |-> items, keys |-> keys, cls |-> cls]

Leaf(kind, data) == Obj(kind, data, <<>>, <<>>, <<>>)

\* CPython keeps one empty tuple; it lives at this address from the start.
EmptyTuple == 1
\* The text literal 'type' of tuple2dict, a constant of the module.
TypeLiteral == 2

\* 'type'
TypeName == <<116, 121, 112, 101>>

InitialHeap == << Obj("tuple", <<>>, <<>>, <<>>, <<>>), Leaf("text", TypeName) >>

IsTupleKind(k) == k \in {"tuple", "record"}

(***************************************************************************)
(* str.encode('utf-8'), strict error handler.                              *)
(***************************************************************************)
IsSurrogate(cp) == cp >= 55296 /\ cp <= 57343

Utf8Char(cp) ==
    IF cp < 128 THEN << cp >>
    ELSE IF cp < 2048 THEN << 192 + (cp \div 64), 128 + (cp % 64) >>
    ELSE IF cp < 65536
         THEN << 224 + (cp \div 4096), 128 + ((cp \div 64) % 64), 128 + (cp % 64) >>
    ELSE << 240 + (cp \div 262144), 128 + ((cp \div 4096) % 64),
            128 + ((cp \div 64) % 64), 128 + (cp % 64) >>

RECURSIVE Utf8Bytes(_)
Utf8Bytes(cps) ==
    IF cps = <<>> THEN <<>> ELSE Utf8Char(Head(cps)) \o Utf8Bytes(Tail(cps))

\* TRUE iff data.encode('utf-8') raises UnicodeEncodeError.
EncodeRaises(cps) == \E i \in 1..Len(cps) : IsSurrogate(cps[i])

(***************************************************************************)
(* Results of a call: the heap after it, and a value or a raised error.    *)
(***************************************************************************)
Return(h, a) == [heap |-> h, ok |-> TRUE, val |-> a, err |-> ""]
Raise(h, e) == [heap |-> h, ok |-> FALSE, val |-> 0, err |-> e]

\* Allocation of a new object: its address is the next free one.
New(h, o) == Return(Append(h, o), Len(h) + 1)

\* A tuple constructor that hands out an existing tuple of the same elements.
NewTuple_Interned(h, items) ==
    IF \E a \in 1..Len(h) : h[a].kind = "tuple" /\ h[a].items = items
    THEN Return(h, CHOOSE a \in 1..Len(h) : h[a].kind = "tuple" /\ h[a].items = items)
    ELSE New(h, Obj("tuple", <<>>, items, <<>>, <<>>))

\* tuple(...) of no elements is the shared empty tuple, otherwise a new tuple.
NewTuple(h, items) ==
    IF items = <<>> THEN Return(h, EmptyTuple)
    ELSE New(h, Obj("tuple", <<>>, items, <<>>, <<>>))

(***************************************************************************)
(* Python's == on the values the model has, as dict lookup uses it.        *)
(***************************************************************************)
RECURSIVE PyEq(_, _, _)
PyEq(h, a, b) ==
    LET x == h[a]
        y == h[b]
    IN  IF x.kind \in {"int", "bool"} /\ y.kind \in {"int", "bool"}
        THEN x.data = y.data
        ELSE IF x.kind \in {"text", "bytes"}
        THEN y.kind = x.kind /\ y.data = x.data
        ELSE IF (IsTupleKind(x.kind) /\ IsTupleKind(y.kind))
                \/ (x.kind = "list" /\ y.kind = "list")
        THEN /\ Len(x.items) = Len(y.items)
             /\ \A i \in 1..Len(x.items) : PyEq(h, x.items[i], y.items[i])
        ELSE IF x.kind = "dict" /\ y.kind = "dict"
        THEN /\ Len(x.keys) = Len(y.keys)
             /\ \A i \in 1..Len(x.keys) :
                  \E j \in 1..Len(y.keys) :
                     /\ PyEq(h, x.keys[i], y.keys[j])
                     /\ PyEq(h, x.items[i], y.items[j])
        ELSE FALSE

\* Index of the entry of a dict whose key equals k, 0 when there is none.
Lookup(h, keys, k) ==
    IF \E i \in 1..Len(keys) : PyEq(h, keys[i], k)
    THEN CHOOSE i \in 1..Len(keys) : PyEq(h, keys[i], k)
    ELSE 0

\* d[k] = v on the entries <<keys, items>> of a dict: an entry whose key
\* equals k keeps its key and its place and takes the value v, otherwise
\* the entry is added at the end.
SetItem(h, d, k, v) ==
    LET i == Lookup(h, d.keys, k)
    IN  IF i = 0
        THEN [keys |-> Append(d.keys, k), items |-> Append(d.items, v)]
        ELSE [keys |-> d.keys, items |-> [d.items EXCEPT ![i] = v]]

(***************************************************************************)
(* strings2utf8 (rpy.py 49-63).                                            *)
(***************************************************************************)
\* A type test that also takes byte strings for text.
IsText_AlsoBytes(kind) == kind \in {"text", "bytes"}

\* isinstance(data, type('')): under unicode_literals type('') is the text type.
IsText(kind) == kind = "text"

\* data.encode('utf-8')
encode(h, a) ==
    IF EncodeRaises(h[a].data) THEN Raise(h, "UnicodeEncodeError")
    ELSE New(h, Leaf("bytes", Utf8Bytes(h[a].data)))

RECURSIVE strings2utf8(_, _), EncodeEach(_, _, _), EncodeEntries(_, _, _, _)

\* A list comprehension that collects the results in reverse.
EncodeEach_Reversed(h, todo, vals) ==
    IF todo = <<>> THEN [heap |-> h, ok |-> TRUE, vals |-> vals, err |-> ""]
    ELSE LET r == strings2utf8(h, Head(todo))
         IN  IF r.ok THEN EncodeEach(r.heap, Tail(todo), <<r.val>> \o vals)
             ELSE [heap |-> r.heap, ok |-> FALSE, vals |-> vals, err |-> r.err]

\* [strings2utf8(v) for v in data], left to right; vals collects the results.
EncodeEach(h, todo, vals) ==
    IF todo = <<>> THEN [heap |-> h, ok |-> TRUE, vals |-> vals, err |-> ""]
    ELSE LET r == strings2utf8(h, Head(todo))
         IN  IF r.ok THEN EncodeEach(r.heap, Tail(todo), Append(vals, r.val))
             ELSE [heap |-> r.heap, ok |-> FALSE, vals |-> vals, err |-> r.err]

\* A dict comprehension that encodes the values and keeps the keys as they are.
EncodeEntries_ValuesOnly(h, src, i, d) ==
    IF i > Len(src.keys)
    THEN [heap |-> h, ok |-> TRUE, keys |-> d.keys, items |-> d.items, err |-> ""]
    ELSE LET v == strings2utf8(h, src.items[i])
         IN  IF ~v.ok
             THEN [heap |-> v.heap, ok |-> FALSE, keys |-> d.keys,
                   items |-> d.items, err |-> v.err]
             ELSE EncodeEntries(v.heap, src, i + 1,
                                SetItem(v.heap, d, src.keys[i], v.val))

\* {strings2utf8(k): strings2utf8(v) for k, v in data.items()}: the entries
\* from position i on are encoded and stored in d one after the other.
EncodeEntries(h, src, i, d) ==
    IF i > Len(src.keys)
    THEN [heap |-> h, ok |-> TRUE, keys |-> d.keys, items |-> d.items, err |-> ""]
    ELSE LET k == strings2utf8(h, src.keys[i])
         IN  IF ~k.ok
             THEN [heap |-> k.heap, ok |-> FALSE, keys |-> d.keys,
                   items |-> d.items, err |-> k.err]
             ELSE LET v == strings2utf8(k.heap, src.items[i])
                  IN  IF ~v.ok
                      THEN [heap |-> v.heap, ok |-> FALSE, keys |-> d.keys,
                            items |-> d.items, err |-> v.err]
                      ELSE EncodeEntries(v.heap, src, i + 1,
                                         SetItem(v.heap, d, k.val, v.val))

strings2utf8(h, a) ==
    LET data == h[a]
    IN  IF data.kind = "dict"
        THEN LET r == EncodeEntries(h, data, 1, [keys |-> <<>>, items |-> <<>>])
             IN  IF r.ok THEN New(r.heap, Obj("dict", <<>>, r.items, r.keys, <<>>))
                 ELSE Raise(r.heap, r.err)
        ELSE IF data.kind = "list"
        THEN LET r == EncodeEach(h, data.items, <<>>)
             IN  IF r.ok THEN New(r.heap, Obj("list", <<>>, r.vals, <<>>, <<>>))
                 ELSE Raise(r.heap, r.err)
        ELSE IF IsTupleKind(data.kind)
        THEN LET r == EncodeEach(h, data.items, <<>>)
             IN  IF r.ok THEN NewTuple(r.heap, r.vals)
                 ELSE Raise(r.heap, r.err)
        ELSE IF IsText(data.kind)
        THEN encode(h, a)
        ELSE Return(h, a)

(***************************************************************************)
(* tuple2dict (rpy.py 29-46).                                              *)
(***************************************************************************)
\* A conversion that forgets the 'type' entry.
tuple2dict_NoType(h, a) ==
    LET data == h[a]
    IN  IF data.kind # "record" THEN Raise(h, "AttributeError")
        ELSE LET asdict == New(h, Obj("dict", <<>>, data.items, data.keys, <<>>))
             IN  New(asdict.heap, asdict.heap[asdict.val])

RECURSIVE CopyEach(_, _, _)
\* Shallow copies of the objects at the addresses todo.
CopyEach(h, todo, vals) ==
    IF todo = <<>> THEN [heap |-> h, vals |-> vals]
    ELSE CopyEach(Append(h, h[Head(todo)]), Tail(todo), Append(vals, Len(h) + 1))

\* A conversion that copies the field values instead of sharing them.
tuple2dict_Copying(h, a) ==
    LET data == h[a]
    IN  IF data.kind # "record" THEN Raise(h, "AttributeError")
        ELSE LET copies == CopyEach(h, data.items, <<>>)
                 result == New(copies.heap, Obj("dict", <<>>, copies.vals, data.keys, <<>>))
                 name == New(result.heap, Leaf("text", data.cls))
                 d == SetItem(name.heap, name.heap[result.val], TypeLiteral, name.val)
             IN  Return([name.heap EXCEPT ![result.val] =
                            Obj("dict", <<>>, d.items, d.keys, <<>>)],
                        result.val)

tuple2dict(h, a) ==
    LET data == h[a]
    IN  IF data.kind # "record" THEN Raise(h, "AttributeError")
        ELSE LET \* data._asdict(): field names to field values
                 asdict == New(h, Obj("dict", <<>>, data.items, data.keys, <<>>))
                 \* dict(...): a copy of it
                 result == New(asdict.heap, asdict.heap[asdict.val])
                 \* data.__class__.__name__
                 name == New(result.heap, Leaf("text", data.cls))
                 \* result['type'] = ...
                 d == SetItem(name.heap, name.heap[result.val], TypeLiteral, name.val)
             IN  Return([name.heap EXCEPT ![result.val] =
                            Obj("dict", <<>>, d.items, d.keys, <<>>)],
                        result.val)

(***************************************************************************)
(* The input universe: values as trees, and their allocation in the heap.  *)
(***************************************************************************)
\* U+00FC, a character of the tests, of two bytes in utf-8; and a lone
\* surrogate (U+DC80), which a Python 3 text can hold.
TextData == { <<252>>, <<56448>> }
\* The utf-8 encoding of U+00FC.
BytesData == { <<195, 188>> }

Leaves ==
    { Leaf("text", d) : d \in TextData } \cup { Leaf("bytes", d) : d \in BytesData }
    \cup { Leaf("int", <<1>>) }

Node(kind, items, keys) == Obj(kind, <<>>, items, keys, <<>>)

\* A namedtuple instance: class name, field names, field values.
Rec(cls, names, values) ==
    Obj("record", <<>>, values, [i \in 1..Len(names) |-> Leaf("text", names[i])], cls)

RECURSIVE Hashable(_)
Hashable(t) ==
    \/ t.kind \in {"text", "bytes", "int", "bool"}
    \/ IsTupleKind(t.kind) /\ \A i \in 1..Len(t.items) : Hashable(t.items[i])

Min(a, b) == IF a < b THEN a ELSE b

RECURSIVE SeqsOf(_, _, _)

\* The sequences of k trees that have n nodes together; tab[j] is the set of
\* the trees of j nodes.
SeqsOf(tab, n, k) ==
    IF k = 0 THEN (IF n = 0 THEN { <<>> } ELSE {})
    ELSE UNION { { <<t>> \o s : t \in tab[j], s \in SeqsOf(tab, n - j, k - 1) } :
                 j \in 1..(n - k + 1) }

\* The values of exactly n nodes, n > 1, from those of fewer nodes.
TreesOf(tab, n) ==
    UNION { { Node("list", s, <<>>) : s \in SeqsOf(tab, n - 1, k) }
            \cup { Node("tuple", s, <<>>) : s \in SeqsOf(tab, n - 1, k) } :
            k \in 1..Min(MaxLen, n - 1) }
    \cup
    UNION { { Node("dict", [i \in 1..k |-> s[2 * i]], [i \in 1..k |-> s[2 * i - 1]]) :
              s \in { q \in SeqsOf(tab, n - 1, 2 * k) :
                      \A i \in 1..k : Hashable(q[2 * i - 1]) } } :
            k \in 1..Min(MaxLen, (n - 1) \div 2) }

RECURSIVE TreeTable(_)
\* << the values of 1 node, ..., the values of n nodes >>
TreeTable(n) ==
    IF n = 1
    THEN << Leaves \cup { Node("list", <<>>, <<>>), Node("tuple", <<>>, <<>>),
                          Node("dict", <<>>, <<>>) } >>
    ELSE LET tab == TreeTable(n - 1) IN Append(tab, TreesOf(tab, n))

\* The values of at most n nodes.
InputTrees(n) == LET tab == TreeTable(n) IN UNION { tab[j] : j \in 1..n }

\* The dicts of two entries whose keys are leaves or tuples of one leaf and
\* whose values are leaves, and the lists of one such dict: the inputs in
\* which two keys can have the same encoding.
TwoEntryDicts ==
    LET ks == Leaves \cup { Node("tuple", <<l>>, <<>>) : l \in Leaves }
        vs == { Leaf("int", <<1>>), Leaf("text", <<252>>) }
        ds == { Node("dict", <<v1, v2>>, <<k1, k2>>) :
                k1 \in ks, k2 \in ks, v1 \in vs, v2 \in vs }
    IN  ds \cup { Node("list", <<d>>, <<>>) : d \in ds }

\* 'foo', 'bar', 'tuple': the namedtuple of the tests; and a namedtuple that
\* has a field called 'type'.
FooName == <<102, 111, 111>>
BarName == <<98, 97, 114>>
TupleName == <<116, 117, 112, 108, 101>>

\* The records of at most n nodes.
InputRecords(n) ==
    LET tab == TreeTable(n - 2)
        values == UNION { SeqsOf(tab, j, 2) : j \in 2..(n - 1) }
    IN  { Rec(TupleName, <<FooName, BarName>>, s) : s \in values }
        \cup { Rec(TupleName, <<TypeName, BarName>>, s) : s \in values }

RECURSIVE AllocTree(_, _), AllocEach(_, _, _)

AllocEach(h, todo, vals) ==
    IF todo = <<>> THEN [heap |-> h, vals |-> vals]
    ELSE LET r == AllocTree(h, Head(todo))
         IN  IF r.ok THEN AllocEach(r.heap, Tail(todo), Append(vals, r.val))
             ELSE [heap |-> r.heap, vals |-> vals]

AllocTree(h, t) ==
    LET ks == AllocEach(h, t.keys, <<>>)
        vs == AllocEach(ks.heap, t.items, <<>>)
    IN  IF t.kind = "tuple" THEN NewTuple(vs.heap, vs.vals)
        ELSE New(vs.heap, Obj(t.kind, t.data, vs.vals, ks.vals, t.cls))

\* No two keys of a dict are equal.
RECURSIVE DistinctKeys(_, _)
DistinctKeys(h, a) ==
    LET o == h[a]
    IN  /\ \A i, j \in 1..Len(o.keys) : i # j => ~PyEq(h, o.keys[i], o.keys[j])
        /\ \A i \in 1..Len(o.keys) : DistinctKeys(h, o.keys[i])
        /\ \A i \in 1..Len(o.items) : DistinctKeys(h, o.items[i])

(***************************************************************************)
(* parse_line: the external parser.  A line is known by what the parser    *)
(* makes of it: a record of one of the six kinds, or an error.             *)
(***************************************************************************)
\* The field names 'version', 'key', 'value', 'text', 'target', 'selector',
\* 'action', 'options' and the variant names 'header', 'metadata', 'empty',
\* 'comment', 'include', 'filter'.
VersionName == <<118, 101, 114, 115, 105, 111, 110>>
KeyName == <<107, 101, 121>>
ValueName == <<118, 97, 108, 117, 101>>
TextName == <<116, 101, 120, 116>>
TargetName == <<116, 97, 114, 103, 101, 116>>
SelectorName == <<115, 101, 108, 101, 99, 116, 111, 114>>
ActionName == <<97, 99, 116, 105, 111, 110>>
OptionsName == <<111, 112, 116, 105, 111, 110, 115>>
HeaderName == <<104, 101, 97, 100, 101, 114>>
MetadataName == <<109, 101, 116, 97, 100, 97, 116, 97>>
EmptyName == <<101, 109, 112, 116, 121>>
CommentName == <<99, 111, 109, 109, 101, 110, 116>>
IncludeName == <<105, 110, 99, 108, 117, 100, 101>>
FilterName == <<102, 105, 108, 116, 101, 114>>
\* 'css', a kind of selector
CssName == <<99, 115, 115>>

\* 'a', U+0432 U+00FC (characters of the tests), and a lone surrogate.
Texts == { Leaf("text", d) : d \in { <<97>>, <<1074, 252>>, <<56448>> } }

\* The selector of a filter: {'type': ..., 'value': ...}.
Selectors ==
    { Node("dict", <<Leaf("text", CssName), v>>,
           <<Leaf("text", TypeName), Leaf("text", ValueName)>>) : v \in Texts }

\* The options of a filter: a list of (name, value) tuples.
OptionLists ==
    { Node("list", <<>>, <<>>) }
    \cup { Node("list", << Node("tuple", <<n, Leaf("bool", <<1>>)>>, <<>>) >>, <<>>) :
           n \in Texts }

ParsedRecords ==
    { Rec(HeaderName, <<VersionName>>, <<v>>) : v \in Texts }
    \cup { Rec(MetadataName, <<KeyName, ValueName>>, <<k, v>>) : k \in Texts, v \in Texts }
    \cup { Rec(EmptyName, <<>>, <<>>) }
    \cup { Rec(CommentName, <<TextName>>, <<v>>) : v \in Texts }
    \cup { Rec(IncludeName, <<TargetName>>, <<v>>) : v \in Texts }
    \cup { Rec(FilterName, <<TextName, SelectorName, ActionName, OptionsName>>,
               <<v, s, Leaf("text", <<97>>), o>>) :
           v \in Texts, s \in Selectors, o \in OptionLists }

NoRecord == Leaf("none", <<>>)
NoLine == [ok |-> FALSE, rec |-> NoRecord, err |-> ""]

\* The kinds of error the parser raises.
ParserErrors == { "ParseError", "ValueError" }

Lines ==
    { [ok |-> TRUE, rec |-> r, err |-> ""] : r \in ParsedRecords }
    \cup { [ok |-> FALSE, rec |-> NoRecord, err |-> e] : e \in ParserErrors }

parse_line(h, text) ==
    IF text.ok THEN AllocTree(h, text.rec) ELSE Raise(h, text.err)

(***************************************************************************)
(* line2dict (rpy.py 66-72).                                               *)
(***************************************************************************)
\* An entry point that answers a parser error with an empty dict.
line2dict_Swallow(h, text) ==
    LET parsed == parse_line(h, text)
    IN  IF ~parsed.ok THEN New(h, Obj("dict", <<>>, <<>>, <<>>, <<>>))
        ELSE strings2utf8(tuple2dict(parsed.heap, parsed.val).heap,
                          tuple2dict(parsed.heap, parsed.val).val)

\* An entry point that leaves out the encoding.
line2dict_NoEncoding(h, text) ==
    LET parsed == parse_line(h, text)
    IN  IF ~parsed.ok THEN parsed ELSE tuple2dict(parsed.heap, parsed.val)

line2dict(h, text) ==
    LET parsed == parse_line(h, text)
    IN  IF ~parsed.ok THEN parsed
        ELSE LET converted == tuple2dict(parsed.heap, parsed.val)
             IN  IF ~converted.ok THEN converted
                 ELSE strings2utf8(converted.heap, converted.val)

(***************************************************************************)
(* The state machine: an input is given, one of the functions is called.   *)
(***************************************************************************)
NoResult == [ok |-> FALSE, val |-> 0, err |-> ""]

Outcome(r) == [ok |-> r.ok, val |-> r.val, err |-> r.err]

Init ==
    /\ fn = ""
    /\ pc = "start"
    /\ ret = NoResult
    /\ \/ \E t \in InputTrees(MaxNodes) \cup InputRecords(MaxNodes) \cup TwoEntryDicts :
             LET r == AllocTree(InitialHeap, t)
             IN  /\ DistinctKeys(r.heap, r.val)
                 /\ heap = r.heap
                 /\ arg = r.val
                 /\ line = NoLine
       \/ /\ heap = InitialHeap
          /\ arg = 0
          /\ line \in Lines

CallStrings2utf8 ==
    /\ pc = "start"
    /\ arg # 0
    /\ LET r == strings2utf8(heap, arg)
       IN  /\ heap' = r.heap
           /\ ret' = Outcome(r)
    /\ fn' = "strings2utf8"
    /\ pc' = "done"
    /\ UNCHANGED <<arg, line>>

CallTuple2dict ==
    /\ pc = "start"
    /\ arg # 0
    /\ LET r == tuple2dict(heap, arg)
       IN  /\ heap' = r.heap
           /\ ret' = Outcome(r)
    /\ fn' = "tuple2dict"
    /\ pc' = "done"
    /\ UNCHANGED <<arg, line>>

CallLine2dict ==
    /\ pc = "start"
    /\ line # NoLine
    /\ LET r == line2dict(heap, line)
       IN  /\ heap' = r.heap
           /\ ret' = Outcome(r)
    /\ fn' = "line2dict"
    /\ pc' = "done"
    /\ UNCHANGED <<arg, line>>

Next == CallStrings2utf8 \/ CallTuple2dict \/ CallLine2dict

Spec == Init /\ [][Next]_vars

(***************************************************************************)
(* Vocabulary of the properties.                                           *)
(***************************************************************************)
IsContainer(o) == o.kind \in {"dict", "list", "tuple", "record"}

\* The addresses an object refers to: the keys and values of a dict, the
\* elements of a list or tuple (the field names of a record are its class's).
Children(o) == IF o.kind = "dict" THEN o.keys \o o.items ELSE o.items

RECURSIVE Reach(_, _)
\* The addresses of the value at a and of all that is nested in it.
Reach(h, a) ==
    {a} \cup UNION { Reach(h, Children(h[a])[i]) : i \in 1..Len(Children(h[a])) }

\* The value at a holds a native text at some depth.
HasText(h, a) == \E c \in Reach(h, a) : h[c].kind = "text"

Returned(f) == pc = "done" /\ fn = f /\ ret.ok

\* The position in the dict d of the key that is a text / byte string of the
\* given kind and data, 0 when there is none.
KeyAt(h, d, kind, data) ==
    IF \E j \in 1..Len(d.keys) : h[d.keys[j]].kind = kind /\ h[d.keys[j]].data = data
    THEN CHOOSE j \in 1..Len(d.keys) :
            h[d.keys[j]].kind = kind /\ h[d.keys[j]].data = data
    ELSE 0

\* The keys of d are of the given kind, pairwise different, and their data are
\* exactly the set names.
KeysAre(h, d, kind, names) ==
    /\ \A j \in 1..Len(d.keys) : h[d.keys[j]].kind = kind
    /\ \A i, j \in 1..Len(d.keys) : i # j => h[d.keys[i]].data # h[d.keys[j]].data
    /\ { h[d.keys[j]].data : j \in 1..Len(d.keys) } = names

(***************************************************************************)
(* C1: tuple2dict of a record of variant V and fields F is a mapping whose *)
(* key set is exactly F \cup {'type'} and whose value under 'type' is V.   *)
(***************************************************************************)
C1_KeysAndType ==
    (pc = "done" /\ fn = "tuple2dict" /\ heap[arg].kind = "record") =>
        /\ ret.ok
        /\ LET R == heap[arg]
               d == heap[ret.val]
               t == KeyAt(heap, d, "text", TypeName)
           IN  /\ d.kind = "dict"
               /\ KeysAre(heap, d, "text",
                          { heap[R.keys[i]].data : i \in 1..Len(R.keys) } \cup {TypeName})
               /\ t # 0
               /\ heap[d.items[t]].kind = "text"
               /\ heap[d.items[t]].data = R.cls

C1_Witness ==
    /\ Returned("tuple2dict")
    /\ heap[arg].kind = "record"
    /\ Len(heap[arg].keys) = 2
    /\ Len(heap[ret.val].keys) = 3

(***************************************************************************)
(* C2: the result of strings2utf8 holds no native text at any depth: not   *)
(* as a key, not as a value, not as an element, not as the result itself.  *)
(***************************************************************************)
C2_NoText == Returned("strings2utf8") => ~HasText(heap, ret.val)

C2_Witness ==
    /\ Returned("strings2utf8")
    /\ heap[arg].kind = "dict"
    /\ \E i \in 1..Len(heap[arg].keys) :
          /\ heap[heap[arg].keys[i]].kind = "text"
          /\ HasText(heap, heap[arg].items[i])

(***************************************************************************)
(* C3: strings2utf8 of a mapping has as many entries as the mapping, at    *)
(* every depth: no entry is lost or merged with another.                   *)
(***************************************************************************)
RECURSIVE EntriesKept(_, _, _)
EntriesKept(h, a, b) ==
    LET x == h[a]
        y == h[b]
    IN  IF x.kind = "dict"
        THEN /\ y.kind = "dict"
             /\ Len(y.keys) = Len(x.keys)
             /\ \A i \in 1..Len(x.keys) :
                   /\ EntriesKept(h, x.keys[i], y.keys[i])
                   /\ EntriesKept(h, x.items[i], y.items[i])
        ELSE IF IsContainer(x)
        THEN /\ Len(y.items) = Len(x.items)
             /\ \A i \in 1..Len(x.items) : EntriesKept(h, x.items[i], y.items[i])
        ELSE TRUE

C3_EntriesKept == Returned("strings2utf8") => EntriesKept(heap, arg, ret.val)

(***************************************************************************)
(* C4: strings2utf8 keeps the kind, the length and the order of every      *)
(* container: a list gives a list, a tuple a tuple, of the same length,    *)
(* whose i-th element is the encoding of the i-th element; a mapping gives *)
(* a mapping; at every depth.                                              *)
(***************************************************************************)
RECURSIVE Mirrors(_, _, _)
\* The value at b is the encoding of the value at a.
Mirrors(h, a, b) ==
    LET x == h[a]
        y == h[b]
    IN  IF x.kind = "dict"
        THEN /\ y.kind = "dict"
             /\ Len(y.keys) = Len(x.keys) =>
                   \A i \in 1..Len(x.keys) :
                      /\ Mirrors(h, x.keys[i], y.keys[i])
                      /\ Mirrors(h, x.items[i], y.items[i])
        ELSE IF IsContainer(x)
        THEN /\ y.kind = (IF x.kind = "list" THEN "list" ELSE "tuple")
             /\ Len(y.items) = Len(x.items)
             /\ \A i \in 1..Len(x.items) : Mirrors(h, x.items[i], y.items[i])
        ELSE IF x.kind = "text"
        THEN y.kind = "bytes" /\ y.data = Utf8Bytes(x.data)
        ELSE y.kind = x.kind /\ y.data = x.data

C4_ShapeKept == Returned("strings2utf8") => Mirrors(heap, arg, ret.val)

C4_Witness ==
    /\ Returned("strings2utf8")
    /\ heap[arg].kind = "list"
    /\ Len(heap[arg].items) = 2
    /\ heap[heap[arg].items[1]].kind = "text"
    /\ heap[heap[arg].items[2]].kind = "tuple"
    /\ heap[heap[arg].items[2]].items # <<>>

(***************************************************************************)
(* C5: strings2utf8 is idempotent: encoding its result again gives an      *)
(* equal value; and a value without text is returned equal to itself.      *)
(***************************************************************************)
C5_Idempotent ==
    (pc = "done" /\ fn = "strings2utf8") =>
        /\ ret.ok =>
              LET again == strings2utf8(heap, ret.val)
              IN  again.ok /\ PyEq(again.heap, again.val, ret.val)
        /\ ~HasText(heap, arg) => ret.ok /\ PyEq(heap, ret.val, arg)

C5_Witness ==
    /\ Returned("strings2utf8")
    /\ HasText(heap, arg)
    /\ \E c \in Reach(heap, arg) : heap[c].kind = "bytes"

(***************************************************************************)
(* C6: strings2utf8 never fails: on every input it returns a result, and a *)
(* value that is no mapping, list, tuple or text is returned as the very   *)
(* same value.                                                             *)
(***************************************************************************)
C6_TotalAndIdentity ==
    (pc = "done" /\ fn = "strings2utf8") =>
        /\ ret.ok
        /\ ~(IsContainer(heap[arg]) \/ heap[arg].kind = "text") => ret.val = arg

(***************************************************************************)
(* C7: when the parser succeeds with a record of variant V and fields F,   *)
(* line2dict gives a mapping whose keys are exactly the utf-8 encodings of *)
(* F \cup {'type'}, whose value under the encoded 'type' is the encoding   *)
(* of V, whose text fields are byte strings and whose mapping and list     *)
(* fields are still a mapping and a list.                                  *)
(***************************************************************************)
C7_EncodedRecord ==
    (Returned("line2dict") /\ line.ok) =>
        LET R == line.rec
            d == heap[ret.val]
            t == KeyAt(heap, d, "bytes", Utf8Bytes(TypeName))
        IN  /\ d.kind = "dict"
            /\ KeysAre(heap, d, "bytes",
                       { Utf8Bytes(R.keys[i].data) : i \in 1..Len(R.keys) }
                       \cup { Utf8Bytes(TypeName) })
            /\ t # 0
            /\ heap[d.items[t]].kind = "bytes"
            /\ heap[d.items[t]].data = Utf8Bytes(R.cls)
            /\ \A i \in 1..Len(R.keys) :
                  LET j == KeyAt(heap, d, "bytes", Utf8Bytes(R.keys[i].data))
                      v == heap[d.items[j]]
                  IN  IF R.items[i].kind = "text"
                      THEN v.kind = "bytes" /\ v.data = Utf8Bytes(R.items[i].data)
                      ELSE v.kind = R.items[i].kind

C7_Witness ==
    /\ Returned("line2dict")
    /\ line.ok
    /\ line.rec.cls = FilterName
    /\ line.rec.items[4].items # <<>>
    /\ line.rec.items[1].data = <<1074, 252>>

(***************************************************************************)
(* C8: when the parser fails, line2dict ends in the parser's error, just   *)
(* as raised; nothing is converted or encoded and no mapping is returned.  *)
(***************************************************************************)
C8_ParserErrorPropagates ==
    (pc = "done" /\ fn = "line2dict" /\ ~line.ok) =>
        /\ ~ret.ok
        /\ ret.err = line.err
        /\ ret.err \in ParserErrors
        /\ heap = InitialHeap

C8_Witness ==
    /\ pc = "done"
    /\ fn = "line2dict"
    /\ ~line.ok
    /\ ret.err = "ParseError"

(***************************************************************************)
(* C9: strings2utf8 does not mutate its input: every object there was      *)
(* before the call is the same after it; and every mapping, list and tuple *)
(* of the result is an object the call created.                            *)
(***************************************************************************)
\* The objects of before the step are unchanged by it.
Untouched == Len(heap') >= Len(heap) /\ \A a \in 1..Len(heap) : heap'[a] = heap[a]

\* As stated: all containers of the result are new.
C9_AllContainersNew ==
    [][(pc = "start" /\ fn' = "strings2utf8") =>
         /\ Untouched
         /\ ret'.ok =>
               \A c \in Reach(heap', ret'.val) :
                  IsContainer(heap'[c]) => c > Len(heap)]_vars

\* As amended: all but the empty tuple, which is the one shared empty tuple.
C9_NonEmptyContainersNew ==
    [][(pc = "start" /\ fn' = "strings2utf8") =>
         /\ Untouched
         /\ ret'.ok =>
               \A c \in Reach(heap', ret'.val) :
                  IsContainer(heap'[c]) =>
                     IF heap'[c].kind = "tuple" /\ heap'[c].items = <<>>
                     THEN c = EmptyTuple
                     ELSE c > Len(heap)]_vars

C9_Witness ==
    /\ Returned("strings2utf8")
    /\ heap[arg].kind = "list"
    /\ Len(heap[arg].items) = 2
    /\ heap[arg].items[1] = EmptyTuple
    /\ heap[heap[arg].items[2]].kind = "tuple"
    /\ heap[heap[arg].items[2]].items # <<>>

(***************************************************************************)
(* C10: tuple2dict shares the field values with the record: the value      *)
(* under the key f is the very object the record holds for f; and the      *)
(* record is unchanged by the call.                                        *)
(***************************************************************************)
\* The dict d holds, under the name of the i-th field of R, the very object
\* R holds for it.
SharesField(h, R, d, i) ==
    LET j == KeyAt(h, d, "text", h[R.keys[i]].data)
    IN  j # 0 /\ d.items[j] = R.items[i]

\* As stated: every field.
C10_EveryFieldShared ==
    [][(pc = "start" /\ fn' = "tuple2dict" /\ heap[arg].kind = "record") =>
         /\ Untouched
         /\ ret'.ok
         /\ \A i \in 1..Len(heap[arg].keys) :
               SharesField(heap', heap[arg], heap'[ret'.val], i)]_vars

\* As amended: every field but one called 'type', whose entry holds the
\* variant name instead.
C10_FieldsButTypeShared ==
    [][(pc = "start" /\ fn' = "tuple2dict" /\ heap[arg].kind = "record") =>
         /\ Untouched
         /\ ret'.ok
         /\ \A i \in 1..Len(heap[arg].keys) :
               IF heap[heap[arg].keys[i]].data = TypeName
               THEN LET d == heap'[ret'.val]
                        j == KeyAt(heap', d, "text", TypeName)
                    IN  /\ j # 0
                        /\ d.items[j] > Len(heap)
                        /\ heap'[d.items[j]].data = heap[arg].cls
               ELSE SharesField(heap', heap[arg], heap'[ret'.val], i)]_vars

C10_Witness ==
    /\ Returned("tuple2dict")
    /\ heap[arg].kind = "record"
    /\ \E i \in 1..Len(heap[arg].keys) : heap[heap[arg].keys[i]].data = TypeName
    /\ \E i \in 1..Len(heap[arg].keys) :
          /\ heap[heap[arg].keys[i]].data # TypeName
          /\ heap[heap[arg].items[i]].kind = "list"
          /\ heap[heap[arg].items[i]].items # <<>>

====
